---- MODULE Spec2Model ----
(***************************************************************************)
(* A model of ms_todo_to_todoist.py: the export of Microsoft To Do tasks   *)
(* to a Todoist CSV.                                                       *)
(*                                                                         *)
(* Conventions.  A Python str is a sequence of characters, each a          *)
(* one-character TLA+ string; a word that no operation looks inside        *)
(* ("Buy", "List:") may stand as one element.  Whitespace, line breaks,    *)
(* braces and the characters of a timestamp are always single elements.    *)
(* A Python value read from JSON or returned by a library is a tagged      *)
(* record: NoneV, Str(s), Int(n), Bool(b), Dict(f), List(s).               *)
(***************************************************************************)
EXTENDS Naturals, Sequences, FiniteSets, TLC

----------------------------------------------------------------------------
(* Python values *)

NoneV == [t |-> "none"]
Str(s) == [t |-> "str", v |-> s]
Int(n) == [t |-> "int", v |-> n]
Bool(b) == [t |-> "bool", v |-> b]
Dict(f) == [t |-> "dict", v |-> f]
List(s) == [t |-> "list", v |-> s]

\* bool(x): what "if x" and "not x" test.
Truthy(x) ==
    CASE x.t = "none" -> FALSE
      [] x.t = "str"  -> x.v # <<>>
      [] x.t = "int"  -> x.v # 0
      [] x.t = "bool" -> x.v
      [] x.t = "dict" -> DOMAIN x.v # {}
      [] x.t = "list" -> x.v # <<>>

\* d.get(key, default) and "key in d" on a dict.
Get(d, key, default) == IF key \in DOMAIN d.v THEN d.v[key] ELSE default
HasKey(d, key) == key \in DOMAIN d.v

----------------------------------------------------------------------------
(* str.replace, str.strip, str.join, str(int) *)

\* text.replace(old, new) for a one-character old and any new.
RECURSIVE Replace(_, _, _)
Replace(s, old, new) ==
    IF s = <<>> THEN <<>>
    ELSE (IF Head(s) = old THEN new ELSE <<Head(s)>>) \o Replace(Tail(s), old, new)

\* The characters str.strip() removes (of those the model's inputs hold).
Whitespace == {" ", "\t", "\n", "\r", "\f"}

RECURSIVE LStrip(_)
LStrip(s) == IF s # <<>> /\ Head(s) \in Whitespace THEN LStrip(Tail(s)) ELSE s

RECURSIVE RStrip(_)
RStrip(s) ==
    IF s # <<>> /\ s[Len(s)] \in Whitespace THEN RStrip(SubSeq(s, 1, Len(s) - 1)) ELSE s

Strip(s) == RStrip(LStrip(s))

\* sep.join(parts)
RECURSIVE Join(_, _)
Join(sep, parts) ==
    IF parts = <<>> THEN <<>>
    ELSE IF Len(parts) = 1 THEN parts[1]
    ELSE parts[1] \o sep \o Join(sep, Tail(parts))

DigitChar == <<"0", "1", "2", "3", "4", "5", "6", "7", "8", "9">>

\* str(n) for a natural number.
RECURSIVE IntToStr(_)
IntToStr(n) ==
    IF n < 10 THEN <<DigitChar[n + 1]>>
    ELSE IntToStr(n \div 10) \o <<DigitChar[(n % 10) + 1]>>

----------------------------------------------------------------------------
(* f-strings.  A template is the sequence of the literal's parts as the    *)
(* source spells them: Lit(text), the escapes LBrace "{{" and RBrace "}}", *)
(* and Field(name) for a replacement field {name}.                         *)

Lit(s) == [k |-> "lit", s |-> s]
LBrace == [k |-> "esc", s |-> <<"{">>]
RBrace == [k |-> "esc", s |-> <<"}">>]
Field(name) == [k |-> "field", name |-> name]

\* The value of an f-string: literal text as is, "{{" as "{", "}}" as "}",
\* a replacement field as the value of its expression in env.
RECURSIVE FormatF(_, _)
FormatF(template, env) ==
    IF template = <<>> THEN <<>>
    ELSE LET p == Head(template)
         IN  (IF p.k = "field" THEN env[p.name] ELSE p.s) \o FormatF(Tail(template), env)

----------------------------------------------------------------------------
(* sanitize *)

sanitize(text) ==
    IF text = NoneV THEN <<>>
    ELSE Strip(Replace(Replace(text.v, "\r", <<" ">>), "\n", <<" ">>))

----------------------------------------------------------------------------
(* importance_to_priority *)

PRIORITY_MAP ==
    (<<"high">> :> 1) @@ (<<"normal">> :> 3) @@ (<<"low">> :> 4)

importance_to_priority_swapped(importance) ==
    IF importance.t = "str" /\ importance.v \in DOMAIN PRIORITY_MAP
    THEN 5 - PRIORITY_MAP[importance.v]
    ELSE 3

\* PRIORITY_MAP.get(importance, 3): a key that is not one of the three
\* strings (None included) gives the default.
importance_to_priority(importance) ==
    IF importance.t = "str" /\ importance.v \in DOMAIN PRIORITY_MAP
    THEN PRIORITY_MAP[importance.v]
    ELSE 3

----------------------------------------------------------------------------
(* datetime.fromisoformat, date.isoformat, time.strftime("%H:%M") *)

IsDigits(s) == \A i \in 1..Len(s) : \E d \in 1..10 : DigitChar[d] = s[i]

DigitVal(c) == (CHOOSE d \in 1..10 : DigitChar[d] = c) - 1

\* int(s) for a string of decimal digits.
RECURSIVE Num(_)
Num(s) == IF s = <<>> THEN 0 ELSE Num(SubSeq(s, 1, Len(s) - 1)) * 10 + DigitVal(s[Len(s)])

\* s.find(c) + 1: the 1-based position of the first c in s, 0 when there is none.
Find(s, c) ==
    IF \E i \in 1..Len(s) : s[i] = c
    THEN CHOOSE i \in 1..Len(s) : s[i] = c /\ \A j \in 1..(i - 1) : s[j] # c
    ELSE 0

IsLeap(y) == (y % 4 = 0) /\ ((y % 100 # 0) \/ (y % 400 = 0))

DaysInMonth(y, m) ==
    IF m = 2 THEN (IF IsLeap(y) THEN 29 ELSE 28)
    ELSE IF m \in {4, 6, 9, 11} THEN 30 ELSE 31

ParseError == [ok |-> FALSE]

\* The date part, "YYYY-MM-DD": the fields of a valid calendar date, or an error.
ParseIsoDate(d) ==
    IF /\ Len(d) = 10
       /\ d[5] = "-" /\ d[8] = "-"
       /\ IsDigits(SubSeq(d, 1, 4)) /\ IsDigits(SubSeq(d, 6, 7)) /\ IsDigits(SubSeq(d, 9, 10))
    THEN LET y  == Num(SubSeq(d, 1, 4))
             m  == Num(SubSeq(d, 6, 7))
             dd == Num(SubSeq(d, 9, 10))
         IN  IF y >= 1 /\ m \in 1..12 /\ dd >= 1 /\ dd <= DaysInMonth(y, m)
             THEN [ok |-> TRUE, year |-> y, month |-> m, day |-> dd]
             ELSE ParseError
    ELSE ParseError

\* The clock part "HH[:MM[:SS]]" with an optional fraction (no offset).  An
\* interpreter older than 3.11 takes a fraction only after the seconds and of
\* exactly 3 or 6 digits; from 3.11 on (lenient) a fraction of any length may
\* follow the last field.  fraction is the first six digits read as a
\* number: zero exactly when the microsecond is zero.
ParseIsoClock(c, lenient) ==
    LET dot  == Find(c, ".")
        base == IF dot > 0 THEN SubSeq(c, 1, dot - 1) ELSE c
        frac == IF dot > 0 THEN SubSeq(c, dot + 1, Len(c)) ELSE <<>>
        n    == Len(base)
        two(i) == IsDigits(SubSeq(base, i, i + 1))
        shape == \/ n = 2 /\ two(1)
                 \/ n = 5 /\ two(1) /\ base[3] = ":" /\ two(4)
                 \/ n = 8 /\ two(1) /\ base[3] = ":" /\ two(4) /\ base[6] = ":" /\ two(7)
        fracOk == \/ dot = 0
                  \/ /\ frac # <<>> /\ IsDigits(frac)
                     /\ (lenient \/ (n = 8 /\ Len(frac) \in {3, 6}))
    IN  IF shape /\ fracOk
        THEN LET h  == Num(SubSeq(base, 1, 2))
                 mi == IF n >= 5 THEN Num(SubSeq(base, 4, 5)) ELSE 0
                 s  == IF n >= 8 THEN Num(SubSeq(base, 7, 8)) ELSE 0
                 fr == SubSeq(frac, 1, IF Len(frac) > 6 THEN 6 ELSE Len(frac))
             IN  IF h <= 23 /\ mi <= 59 /\ s <= 59
                 THEN [ok |-> TRUE, hour |-> h, minute |-> mi, second |-> s,
                       fraction |-> Num(fr)]
                 ELSE ParseError
        ELSE ParseError

\* The UTC offset after the sign, "HH:MM".
IsoOffsetOk(z) ==
    /\ Len(z) = 5 /\ z[3] = ":"
    /\ IsDigits(SubSeq(z, 1, 2)) /\ IsDigits(SubSeq(z, 4, 5))
    /\ Num(SubSeq(z, 1, 2)) <= 23 /\ Num(SubSeq(z, 4, 5)) <= 59

\* datetime.fromisoformat(s): the first ten characters are the date, the
\* eleventh any separator, the rest the clock with an optional signed offset.
fromisoformat(s, lenient) ==
    IF Len(s) < 10 THEN ParseError
    ELSE LET date == ParseIsoDate(SubSeq(s, 1, 10))
             tstr == SubSeq(s, 12, Len(s))
             tz   == IF Find(tstr, "-") # 0 THEN Find(tstr, "-") ELSE Find(tstr, "+")
             cstr == IF tz > 0 THEN SubSeq(tstr, 1, tz - 1) ELSE tstr
             zstr == IF tz > 0 THEN SubSeq(tstr, tz + 1, Len(tstr)) ELSE <<>>
             clock == IF tstr = <<>>
                      THEN [ok |-> TRUE, hour |-> 0, minute |-> 0, second |-> 0, fraction |-> 0]
                      ELSE ParseIsoClock(cstr, lenient)
         IN  IF ~date.ok \/ Len(s) = 11 \/ ~clock.ok \/ (tz > 0 /\ ~IsoOffsetOk(zstr))
             THEN ParseError
             ELSE [ok |-> TRUE, year |-> date.year, month |-> date.month, day |-> date.day,
                   hour |-> clock.hour, minute |-> clock.minute, second |-> clock.second,
                   fraction |-> clock.fraction]

\* n as at least w decimal digits, zero-padded on the left.
RECURSIVE Pad(_, _)
Pad(n, w) == IF w <= 1 THEN IntToStr(n)
             ELSE IF Len(IntToStr(n)) >= w THEN IntToStr(n)
             ELSE <<"0">> \o Pad(n, w - 1)

\* dt_obj.date().isoformat()
date_isoformat(d) == Pad(d.year, 4) \o <<"-">> \o Pad(d.month, 2) \o <<"-">> \o Pad(d.day, 2)

\* dt_obj.time().strftime("%H:%M")
strftime_HM(d) == Pad(d.hour, 2) \o <<":">> \o Pad(d.minute, 2)

\* dt_obj.time() != dt.time(0, 0)
NotMidnight(d) == d.hour # 0 \/ d.minute # 0 \/ d.second # 0 \/ d.fraction # 0

----------------------------------------------------------------------------
(* parse_due *)

Return(v) == [t |-> "return", v |-> v]
Raise(e) == [t |-> "raise", exc |-> e]

parse_due_no_midnight(due, lenient) ==
    IF ~Truthy(due) THEN Return(<<<<>>, <<>>>>)
    ELSE IF ~Truthy(Get(due, "dateTime", NoneV)) THEN Return(<<<<>>, <<>>>>)
    ELSE LET raw == due.v["dateTime"]
         IN  IF raw.t # "str" THEN Return(<<<<>>, <<>>>>)
             ELSE LET dt_obj == fromisoformat(Replace(raw.v, "Z", <<"+", "0", "0", ":", "0", "0">>), lenient)
                  IN  IF ~dt_obj.ok THEN Return(<<<<>>, <<>>>>)
                      ELSE Return(<<date_isoformat(dt_obj), strftime_HM(dt_obj)>>)

\* parse_due(due): due is None or a dict.  Inside the try, raw.replace on a
\* value that is no str and fromisoformat on a malformed string raise, and
\* the except clause turns either into ("", "").
parse_due(due, lenient) ==
    IF ~Truthy(due) THEN Return(<<<<>>, <<>>>>)
    ELSE IF ~Truthy(Get(due, "dateTime", NoneV)) THEN Return(<<<<>>, <<>>>>)
    ELSE LET raw == due.v["dateTime"]
         IN  IF raw.t # "str" THEN Return(<<<<>>, <<>>>>)
             ELSE LET dt_obj == fromisoformat(Replace(raw.v, "Z", <<"+", "0", "0", ":", "0", "0">>), lenient)
                  IN  IF ~dt_obj.ok THEN Return(<<<<>>, <<>>>>)
                      ELSE Return(<<date_isoformat(dt_obj),
                                    IF NotMidnight(dt_obj) THEN strftime_HM(dt_obj) ELSE <<>>>>)

----------------------------------------------------------------------------
(* task_rows *)

\* The f-string pieces of task_rows, as the source spells them.
ListNoteTemplate ==
    <<Lit(<<"List:", " ">>), LBrace, Lit(<<"list_name">>), RBrace>>

PrefixedContentTemplate ==
    <<LBrace, Lit(<<"parent_prefix">>), RBrace, LBrace, Lit(<<"title">>), RBrace>>

ChecklistContentTemplate ==
    <<LBrace, Lit(<<"title">>), RBrace, Lit(<<" ", ">", " ">>),
      LBrace, Lit(<<"cl_title">>), RBrace>>

ChecklistDescriptionTemplate ==
    <<Lit(<<"Subtask", " ", "from", " ", "'">>), LBrace, Lit(<<"title">>), RBrace,
      Lit(<<"'", " ", "|", " ", "List:", " ">>), LBrace, Lit(<<"list_name">>), RBrace>>

AttachmentNote == <<"[Has", " ", "Attachments]">>

NoteSeparator == <<" ", "\n">>

\* notes: the body if not empty, the attachment marker, the list note.
Notes(task, list_name) ==
    LET body == sanitize(Get(Get(task, "body", Dict(<<>>)), "content", Str(<<>>)))
    IN  (IF body # <<>> THEN <<body>> ELSE <<>>)
          \o (IF Truthy(Get(task, "hasAttachments", NoneV)) THEN <<AttachmentNote>> ELSE <<>>)
          \o <<FormatF(ListNoteTemplate, [list_name |-> list_name])>>

\* The row of the task itself.
TaskRow(task, list_name, parent_prefix, lenient_) ==
    LET title    == sanitize(Get(task, "title", Str(<<>>)))
        priority == importance_to_priority(Get(task, "importance", Str(<<"normal">>)))
        parsed   == parse_due(Get(task, "dueDateTime", NoneV), lenient_).v
        content  == IF parent_prefix # <<>>
                    THEN FormatF(PrefixedContentTemplate,
                                 [parent_prefix |-> parent_prefix, title |-> title])
                    ELSE title
    IN  <<(<<"task">>), content, IntToStr(priority), parsed[1], parsed[2],
          Join(NoteSeparator, Notes(task, list_name))>>

\* The row of one checklist item that is not checked.
ChecklistRow(task, item, list_name, lenient_) ==
    LET title    == sanitize(Get(task, "title", Str(<<>>)))
        priority == importance_to_priority(Get(task, "importance", Str(<<"normal">>)))
        parsed   == parse_due(Get(task, "dueDateTime", NoneV), lenient_).v
        cl_title == sanitize(Get(item, "displayName", Str(<<>>)))
        env      == [title |-> title, cl_title |-> cl_title, list_name |-> list_name]
    IN  <<(<<"task">>), FormatF(ChecklistContentTemplate, env), IntToStr(priority),
          parsed[1], parsed[2], FormatF(ChecklistDescriptionTemplate, env)>>

RECURSIVE ChecklistRows_unfiltered(_, _, _, _)
ChecklistRows_unfiltered(task, cl_items, list_name, lenient_) ==
    IF cl_items = <<>> THEN <<>>
    ELSE <<ChecklistRow(task, Head(cl_items), list_name, lenient_)>>
           \o ChecklistRows_unfiltered(task, Tail(cl_items), list_name, lenient_)

\* The rows of the items of cl_items that are not checked, in order.
RECURSIVE ChecklistRows(_, _, _, _)
ChecklistRows(task, cl_items, list_name, lenient_) ==
    IF cl_items = <<>> THEN <<>>
    ELSE (IF Truthy(Get(Head(cl_items), "isChecked", NoneV))
          THEN <<>>
          ELSE <<ChecklistRow(task, Head(cl_items), list_name, lenient_)>>)
           \o ChecklistRows(task, Tail(cl_items), list_name, lenient_)

\* task.get("checklistItems", []) or []
ChecklistItemsOf(task) ==
    LET got == Get(task, "checklistItems", List(<<>>))
    IN  IF Truthy(got) THEN got.v ELSE <<>>

task_rows(task, list_name, include_checklists_, parent_prefix, lenient_) ==
    <<TaskRow(task, list_name, parent_prefix, lenient_)>>
      \o (IF include_checklists_
          THEN ChecklistRows(task, ChecklistItemsOf(task), list_name, lenient_)
          ELSE <<>>)

----------------------------------------------------------------------------
(* State *)

VARIABLES
    pc,                 \* where the run is
    lenient,            \* the interpreter is 3.11 or later (fromisoformat)
    text, sanitized,    \* sanitize: its argument and its result
    due, due_ret,       \* parse_due: its argument and its outcome
    task, list_name, include_checklists, rows,
                        \* task_rows: its arguments and its result
    include_completed, no_checklists,
                        \* export_csv: its flags
    lists,              \* export_csv: the lists fetched
    fetched,            \* the task pages the service has returned, one per list
    all_rows,           \* export_csv: the rows accumulated
    out_file,           \* the file at output_path
    stdout,             \* what the run has printed
    error,              \* the exception that ended the run, if any
    client_id, tenant_id,
                        \* get_token: the environment
    accounts,           \* get_token: the cached accounts
    silent,             \* what acquire_token_silent returned, if called
    flow,               \* get_token: the device flow
    result,             \* get_token: the result tested for a token
    stderr,             \* what the run has written to standard error
    exit_code,          \* the status sys.exit was called with
    token               \* what get_token returned

sanVars == <<text, sanitized>>
dueVars == <<due, due_ret>>
rowVars == <<task, list_name, include_checklists, rows>>
expVars == <<include_completed, no_checklists, lists, fetched, all_rows, out_file,
             stdout, error>>
tokVars == <<client_id, tenant_id, accounts, silent, flow, result, stderr, exit_code, token>>

vars == <<pc, lenient, sanVars, dueVars, rowVars, expVars, tokVars>>

Pending == [t |-> "pending"]

SanIdle == text = NoneV /\ sanitized = Pending
DueIdle == due = NoneV /\ due_ret = Pending
RowIdle == task = NoneV /\ list_name = <<>> /\ include_checklists = FALSE /\ rows = Pending
ExpIdle ==
    /\ include_completed = FALSE /\ no_checklists = FALSE
    /\ lists = Pending /\ fetched = <<>> /\ all_rows = <<>>
    /\ out_file = NoneV /\ stdout = <<>> /\ error = NoneV
TokIdle ==
    /\ client_id = NoneV /\ tenant_id = NoneV /\ accounts = Pending /\ silent = Pending
    /\ flow = Pending /\ result = NoneV /\ stderr = <<>> /\ exit_code = NoneV
    /\ token = Pending

----------------------------------------------------------------------------
(* sanitize applied to every short string *)

MaxLen == 4

Chars == {"a", " ", "\t", "\r", "\n"}

Strings(n) == UNION {[1..k -> Chars] : k \in 0..n}

InitSanitize ==
    /\ pc = "sanitize"
    /\ lenient = FALSE
    /\ text \in {NoneV} \cup {Str(s) : s \in Strings(MaxLen)}
    /\ sanitized = Pending
    /\ DueIdle /\ RowIdle /\ ExpIdle /\ TokIdle

CallSanitize ==
    /\ pc = "sanitize"
    /\ sanitized' = Str(sanitize(text))
    /\ pc' = "sanitize:returned"
    /\ UNCHANGED <<lenient, text, dueVars, rowVars, expVars, tokVars>>

NextSanitize == CallSanitize
SpecSanitize == InitSanitize /\ [][NextSanitize]_vars

----------------------------------------------------------------------------
(* parse_due applied to due values built from timestamp parts *)

\* Calendar dates as the service writes them, and malformed ones.
IsoDates ==
    {[s |-> <<"2", "0", "2", "4", "-", "0", "3", "-", "1", "5">>, good |-> TRUE],
     [s |-> <<"2", "0", "2", "4", "-", "0", "2", "-", "2", "9">>, good |-> TRUE],
     [s |-> <<"2", "0", "2", "4", "-", "0", "2", "-", "3", "0">>, good |-> FALSE],
     [s |-> <<"2", "0", "2", "4", "-", "3", "-", "1", "5">>, good |-> FALSE],
     [s |-> <<"t", "o", "m", "o", "r", "r", "o", "w">>, good |-> FALSE]}

IsoSeps == {<<"T">>, <<" ">>}

\* Clock texts: hm is the clock's HH:MM, zero whether it reads 00:00[:00],
\* sec whether it has a seconds field, good whether it is a valid clock.
IsoClocks ==
     {[s |-> <<"0", "9", ":", "3", "0", ":", "0", "0">>, hm |-> <<"0", "9", ":", "3", "0">>, zero |-> FALSE, sec |-> TRUE, good |-> TRUE],
      [s |-> <<"0", "0", ":", "0", "0", ":", "0", "0">>, hm |-> <<"0", "0", ":", "0", "0">>, zero |-> TRUE, sec |-> TRUE, good |-> TRUE],
      [s |-> <<"0", "0", ":", "0", "0", ":", "3", "0">>, hm |-> <<"0", "0", ":", "0", "0">>, zero |-> FALSE, sec |-> TRUE, good |-> TRUE],
      [s |-> <<"2", "3", ":", "5", "9", ":", "5", "9">>, hm |-> <<"2", "3", ":", "5", "9">>, zero |-> FALSE, sec |-> TRUE, good |-> TRUE],
      [s |-> <<"0", "0", ":", "0", "0">>, hm |-> <<"0", "0", ":", "0", "0">>, zero |-> TRUE, sec |-> FALSE, good |-> TRUE],
      [s |-> <<"0", "9", ":", "3", "0">>, hm |-> <<"0", "9", ":", "3", "0">>, zero |-> FALSE, sec |-> FALSE, good |-> TRUE],
      [s |-> <<"2", "5", ":", "0", "0", ":", "0", "0">>, hm |-> <<>>, zero |-> FALSE, sec |-> TRUE, good |-> FALSE],
      [s |-> <<"9", ":", "3", "0">>, hm |-> <<>>, zero |-> FALSE, sec |-> FALSE, good |-> FALSE]}

\* What may follow the clock: nothing, Z, an offset, a fraction of a second.
IsoSuffixes ==
     {[s |-> <<>>, frac |-> FALSE, digits |-> 0, nonzero |-> FALSE, good |-> TRUE],
      [s |-> <<"Z">>, frac |-> FALSE, digits |-> 0, nonzero |-> FALSE, good |-> TRUE],
      [s |-> <<"+", "0", "5", ":", "3", "0">>, frac |-> FALSE, digits |-> 0, nonzero |-> FALSE, good |-> TRUE],
      [s |-> <<"-", "0", "8", ":", "0", "0">>, frac |-> FALSE, digits |-> 0, nonzero |-> FALSE, good |-> TRUE],
      [s |-> <<".", "0", "0", "0">>, frac |-> TRUE, digits |-> 3, nonzero |-> FALSE, good |-> TRUE],
      [s |-> <<".", "5", "0", "0", "Z">>, frac |-> TRUE, digits |-> 3, nonzero |-> TRUE, good |-> TRUE],
      [s |-> <<".", "0", "0", "0", "0", "0", "0", "0">>, frac |-> TRUE, digits |-> 7, nonzero |-> FALSE, good |-> TRUE],
      [s |-> <<"+", "5">>, frac |-> FALSE, digits |-> 0, nonzero |-> FALSE, good |-> FALSE]}

RawTimestamps ==
    {d.s : d \in IsoDates}
      \cup {d.s \o sep \o c.s \o x.s : d \in IsoDates, sep \in IsoSeps, c \in IsoClocks, x \in IsoSuffixes}

DateTimeValues ==
    {NoneV, Str(<<>>), Int(0), Int(20240315)} \cup {Str(r) : r \in RawTimestamps}

DueValues ==
    {NoneV, Dict(<<>>), Dict([timeZone |-> Str(<<"UTC">>)])}
      \cup {Dict([dateTime |-> v]) : v \in DateTimeValues}
      \cup {Dict([dateTime |-> v, timeZone |-> Str(<<"UTC">>)]) : v \in DateTimeValues}

InitDue ==
    /\ pc = "parse_due"
    /\ lenient \in BOOLEAN
    /\ due \in DueValues
    /\ due_ret = Pending
    /\ SanIdle /\ RowIdle /\ ExpIdle /\ TokIdle

CallParseDue ==
    /\ pc = "parse_due"
    /\ due_ret' = parse_due(due, lenient)
    /\ pc' = "parse_due:returned"
    /\ UNCHANGED <<lenient, due, sanVars, rowVars, expVars, tokVars>>

NextDue == CallParseDue
SpecDue == InitDue /\ [][NextDue]_vars

----------------------------------------------------------------------------
(* task_rows applied to task records built field by field *)

MaxItems == 2

\* A dict of the given optional entries: each of fs is a one-key record or
\* the empty function (the key is absent).
RECURSIVE Merge(_)
Merge(fs) == IF fs = <<>> THEN <<>> ELSE Head(fs) @@ Merge(Tail(fs))

Absent == <<>>

TsMorning == <<"2", "0", "2", "4", "-", "0", "3", "-", "1", "5", "T", "0", "9", ":", "3", "0", ":", "0", "0", "Z">>
TsMidnight == <<"2", "0", "2", "4", "-", "0", "3", "-", "1", "5", "T", "0", "0", ":", "0", "0", ":", "0", "0", "Z">>
TsService == <<"2", "0", "2", "4", "-", "0", "3", "-", "1", "5", "T", "0", "9", ":", "3", "0", ":", "0", "0", ".", "0", "0", "0", "0", "0", "0", "0">>

StatusOpts == {Absent, [status |-> Str(<<"completed">>)]}
TitleOpts ==
    {Absent,
     [title |-> Str(<<"Buy", " ", "milk">>)],
     [title |-> Str(<<" ", "Buy", "\r", "\n", "milk", "\n">>)]}
ImportanceOpts ==
    {Absent, [importance |-> NoneV]}
      \cup {[importance |-> Str(<<w>>)] : w \in {"high", "normal", "low", "urgent"}}
DueOpts ==
    {Absent,
     [dueDateTime |-> Dict([dateTime |-> Str(TsMorning), timeZone |-> Str(<<"UTC">>)])],
     [dueDateTime |-> Dict([dateTime |-> Str(TsMidnight), timeZone |-> Str(<<"UTC">>)])],
     [dueDateTime |-> Dict([dateTime |-> Str(TsService), timeZone |-> Str(<<"UTC">>)])]}
BodyOpts ==
    {Absent,
     [body |-> Dict([content |-> Str(<<>>), contentType |-> Str(<<"text">>)])],
     [body |-> Dict([content |-> Str(<<"2%", "\r", "\n", "fat", " ">>),
                     contentType |-> Str(<<"text">>)])]}
AttachmentOpts == {Absent, [hasAttachments |-> Bool(TRUE)]}

ItemPool ==
    {Dict([displayName |-> Str(<<"2%", " ", "milk">>), isChecked |-> Bool(FALSE)]),
     Dict([displayName |-> Str(<<"Skim", " ", "milk">>), isChecked |-> Bool(TRUE)]),
     Dict([displayName |-> Str(<<"Eggs", "\n">>)])}

ItemSeqs(n) == UNION {[1..k -> ItemPool] : k \in 0..n}

ChecklistOpts ==
    {Absent, [checklistItems |-> NoneV]}
      \cup {[checklistItems |-> List(items)] : items \in ItemSeqs(MaxItems)}

Tasks ==
    {Dict(Merge(<<st, ti, im, du, bo, at, cl>>)) :
        st \in StatusOpts, ti \in TitleOpts, im \in ImportanceOpts, du \in DueOpts,
        bo \in BodyOpts, at \in AttachmentOpts, cl \in ChecklistOpts}

ListNames == {<<"Groceries">>, <<"Unnamed", " ", "List">>}

InitRows ==
    /\ pc = "task_rows"
    /\ lenient \in BOOLEAN
    /\ task \in Tasks
    /\ list_name \in ListNames
    /\ include_checklists \in BOOLEAN
    /\ rows = Pending
    /\ SanIdle /\ DueIdle /\ ExpIdle /\ TokIdle

CallTaskRows ==
    /\ pc = "task_rows"
    /\ rows' = List(task_rows(task, list_name, include_checklists, <<>>, lenient))
    /\ pc' = "task_rows:returned"
    /\ UNCHANGED <<lenient, task, list_name, include_checklists,
                   sanVars, dueVars, expVars, tokVars>>

NextRows == CallTaskRows
SpecRows == InitRows /\ [][NextRows]_vars

----------------------------------------------------------------------------
(* graph_get, fetch_lists, fetch_tasks *)

GraphErrorTemplate ==
    <<Lit(<<"Graph", " ", "API", " ", "error", " ">>), LBrace, Lit(<<"r.status_code">>), RBrace,
      Lit(<<":", " ">>), LBrace, Lit(<<"r.text">>), RBrace>>

RuntimeError(r) ==
    [t |-> "raise", exc |-> "RuntimeError",
     msg |-> FormatF(GraphErrorTemplate, [status_code |-> IntToStr(r.status_code), text |-> r.text])]

graph_get_above_400(r) ==
    IF r.status_code > 400 THEN RuntimeError(r) ELSE Return(r.json)

\* graph_get, given the response r that requests.get returned.
graph_get(r) ==
    IF r.status_code >= 400 THEN RuntimeError(r) ELSE Return(r.json)

\* fetch_lists and fetch_tasks: data.get("value", [])
fetch_lists(r) ==
    LET data == graph_get(r)
    IN  IF data.t = "raise" THEN data ELSE Return(Get(data.v, "value", List(<<>>)))

fetch_tasks(r) ==
    LET data == graph_get(r)
    IN  IF data.t = "raise" THEN data ELSE Return(Get(data.v, "value", List(<<>>)))

----------------------------------------------------------------------------
(* csv.writer *)

CsvSpecial == {",", "\"", "\r", "\n"}

RECURSIVE DoubleQuotes(_)
DoubleQuotes(f) ==
    IF f = <<>> THEN <<>>
    ELSE (IF Head(f) = "\"" THEN <<"\"", "\"">> ELSE <<Head(f)>>) \o DoubleQuotes(Tail(f))

\* A field as csv.writer writes it: quoted, its quotes doubled, when it holds
\* the delimiter, a quote or a line break.
CsvField(f) ==
    IF \E k \in 1..Len(f) : f[k] \in CsvSpecial
    THEN <<"\"">> \o DoubleQuotes(f) \o <<"\"">>
    ELSE f

\* writer.writerow(row): the fields, comma-separated, and the line terminator.
CsvRecord(row) ==
    Join(<<",">>, [k \in 1..Len(row) |-> CsvField(row[k])]) \o <<"\r", "\n">>

\* writer.writerows(rs)
RECURSIVE CsvRecords(_)
CsvRecords(rs) == IF rs = <<>> THEN <<>> ELSE CsvRecord(Head(rs)) \o CsvRecords(Tail(rs))

CsvHeader ==
    <<(<<"Type">>), <<"Content">>, <<"Priority">>, <<"Due", " ", "Date">>,
      <<"Due", " ", "Time">>, <<"Description">>>>

----------------------------------------------------------------------------
(* export_csv *)

ExportedTemplate ==
    <<Lit(<<"Exported", " ">>), LBrace, Lit(<<"len(all_rows)">>), RBrace,
      Lit(<<" ", "tasks", " ", "to", " ">>), LBrace, Lit(<<"output_path">>), RBrace>>

OutputPath == <<"output.csv">>

ExportTask_drop_completed(t, name, include_completed_, no_checklists_, lenient_) ==
    IF Get(t, "status", NoneV) = Str(<<"completed">>)
    THEN <<>>
    ELSE task_rows(t, name, ~no_checklists_, <<>>, lenient_)

\* The body of the loop over a list's tasks: the rows one task adds.
ExportTask(t, name, include_completed_, no_checklists_, lenient_) ==
    IF ~include_completed_ /\ Get(t, "status", NoneV) = Str(<<"completed">>)
    THEN <<>>
    ELSE task_rows(t, name, ~no_checklists_, <<>>, lenient_)

\* The loop over a list's tasks: the rows they add, in task order.
RECURSIVE ExportTasks(_, _, _, _, _)
ExportTasks(tasks, name, include_completed_, no_checklists_, lenient_) ==
    IF tasks = <<>> THEN <<>>
    ELSE ExportTask(Head(tasks), name, include_completed_, no_checklists_, lenient_)
           \o ExportTasks(Tail(tasks), name, include_completed_, no_checklists_, lenient_)

----------------------------------------------------------------------------
(* export_csv against a service that answers each request as it likes *)

MaxLists == 2
MaxTasks == 2

\* The tasks the service may hold: the active task of the end-to-end example,
\* a completed task with an open checklist item, a task with a note.
ExportTaskPool ==
    {Dict([title |-> Str(<<"Buy", " ", "milk">>), status |-> Str(<<"notStarted">>),
           importance |-> Str(<<"high">>),
           dueDateTime |-> Dict([dateTime |-> Str(TsMorning), timeZone |-> Str(<<"UTC">>)]),
           checklistItems |->
               List(<<Dict([displayName |-> Str(<<"2%", " ", "milk">>), isChecked |-> Bool(FALSE)]),
                      Dict([displayName |-> Str(<<"Skim", " ", "milk">>), isChecked |-> Bool(TRUE)])>>)]),
     Dict([title |-> Str(<<"Pay", " ", "rent">>), status |-> Str(<<"completed">>),
           importance |-> Str(<<"normal">>),
           checklistItems |->
               List(<<Dict([displayName |-> Str(<<"Bank", " ", "transfer">>),
                            isChecked |-> Bool(FALSE)])>>)]),
     Dict([title |-> Str(<<"Call", ",", " ", "Ann">>), importance |-> Str(<<"low">>),
           body |-> Dict([content |-> Str(<<"say", " ", "\"", "hi", "\"">>)]),
           hasAttachments |-> Bool(TRUE)])}

ExportListPool ==
    {Dict([id |-> Str(<<"L1">>), displayName |-> Str(<<"Groceries">>)]),
     Dict([id |-> Str(<<"L2">>)])}

SeqsOver(S, n) == UNION {[1..k -> S] : k \in 0..n}

HttpErrors == {400, 500}

\* What requests.get may return for a request: a page of n items at most of
\* pool, a body without the "value" key, or an error status.
Responses(pool, n) ==
    {[status_code |-> 200, text |-> <<"{...}">>, json |-> Dict([value |-> List(items)])] :
        items \in SeqsOver(pool, n)}
      \cup {[status_code |-> 200, text |-> <<"{}">>, json |-> Dict(<<>>)]}
      \cup {[status_code |-> c, text |-> <<"denied">>,
             json |-> Dict([error |-> Str(<<"denied">>)])] : c \in HttpErrors}

OldFile == <<"old", "\r", "\n">>

\* The tasks the pages rs hold.
RECURSIVE TasksReturned(_)
TasksReturned(rs) ==
    IF rs = <<>> THEN 0
    ELSE (IF Head(rs).status_code < 400 /\ HasKey(Head(rs).json, "value")
          THEN Len(Head(rs).json.v["value"].v) ELSE 0) + TasksReturned(Tail(rs))

Init ==
    /\ pc = "fetch_lists"
    /\ lenient = FALSE
    /\ include_completed \in BOOLEAN
    /\ no_checklists \in BOOLEAN
    /\ lists = Pending
    /\ fetched = <<>>
    /\ all_rows = <<>>
    /\ out_file \in {NoneV, Str(OldFile)}
    /\ stdout = <<>>
    /\ error = NoneV
    /\ SanIdle /\ DueIdle /\ RowIdle /\ TokIdle

\* lists = fetch_lists(token)
FetchLists ==
    /\ pc = "fetch_lists"
    /\ \E r \in Responses(ExportListPool, MaxLists) :
         LET got == fetch_lists(r)
         IN  /\ fetched' = Append(fetched, r)
             /\ IF got.t = "raise"
                THEN /\ error' = got
                     /\ pc' = "raised"
                     /\ UNCHANGED lists
                ELSE /\ lists' = got.v
                     /\ pc' = IF got.v.v = <<>> THEN "open" ELSE "fetch_tasks"
                     /\ UNCHANGED error
    /\ UNCHANGED <<lenient, include_completed, no_checklists, all_rows, out_file, stdout,
                   sanVars, dueVars, rowVars, tokVars>>

\* One turn of the loop over lists: fetch the list's tasks and add their rows.
FetchTasks ==
    /\ pc = "fetch_tasks"
    /\ LET lst  == lists.v[Len(fetched)]
           name == Get(lst, "displayName", Str(<<"Unnamed", " ", "List">>)).v
       IN  \E r \in Responses(ExportTaskPool, MaxTasks - TasksReturned(Tail(fetched))) :
             LET got == fetch_tasks(r)
             IN  /\ fetched' = Append(fetched, r)
                 /\ IF got.t = "raise"
                    THEN /\ error' = got
                         /\ pc' = "raised"
                         /\ UNCHANGED all_rows
                    ELSE /\ all_rows' = all_rows \o ExportTasks(got.v.v, name, include_completed,
                                                                no_checklists, lenient)
                         /\ pc' = IF Len(fetched) = Len(lists.v) THEN "open" ELSE "fetch_tasks"
                         /\ UNCHANGED error
    /\ UNCHANGED <<lenient, include_completed, no_checklists, lists, out_file, stdout,
                   sanVars, dueVars, rowVars, tokVars>>

\* open(output_path, "w", ...): the file is created or cut to nothing, or
\* the open fails and the file is as it was.
OpenOutput ==
    /\ pc = "open"
    /\ \/ /\ out_file' = Str(<<>>)
          /\ pc' = "write"
          /\ UNCHANGED error
       \/ /\ error' = Raise("OSError")
          /\ pc' = "raised"
          /\ UNCHANGED out_file
    /\ UNCHANGED <<lenient, include_completed, no_checklists, lists, fetched, all_rows, stdout,
                   sanVars, dueVars, rowVars, tokVars>>

\* The header and the rows are written, the file is closed, the count printed.
WriteCsv ==
    /\ pc = "write"
    /\ out_file' = Str(out_file.v \o CsvRecord(CsvHeader) \o CsvRecords(all_rows))
    /\ stdout' = Append(stdout,
                        FormatF(ExportedTemplate,
                                [all_rows |-> IntToStr(Len(all_rows)), output_path |-> OutputPath]))
    /\ pc' = "done"
    /\ UNCHANGED <<lenient, include_completed, no_checklists, lists, fetched, all_rows, error,
                   sanVars, dueVars, rowVars, tokVars>>

Next == FetchLists \/ FetchTasks \/ OpenOutput \/ WriteCsv

Spec == Init /\ [][Next]_vars

----------------------------------------------------------------------------
(* get_token against an authentication library that answers as it likes *)

MaxAccounts == 2

AccessTokens == {<<"tok-A">>, <<"tok-B">>}

\* What acquire_token_silent may return: None, or a dict that has no "error"
\* key and typically, not always, an "access_token".
SilentResults ==
    {NoneV, Dict(<<>>), Dict([token_type |-> Str(<<"Bearer">>)])}
      \cup {Dict([access_token |-> Str(tk), token_type |-> Str(<<"Bearer">>)]) : tk \in AccessTokens}

\* What initiate_device_flow may return: a flow with its code and URL, or an error.
DeviceFlows ==
    {Dict([user_code |-> Str(<<"ABCD-1234">>),
           verification_uri |-> Str(<<"https://microsoft.com/devicelogin">>)]),
     Dict([error |-> Str(<<"invalid_client">>)])}

\* What acquire_token_by_device_flow may return once the operator has acted
\* or the flow has expired.
DeviceResults ==
    {Dict([access_token |-> Str(tk), token_type |-> Str(<<"Bearer">>)]) : tk \in AccessTokens}
      \cup {Dict([error |-> Str(<<"expired_token">>),
                  error_description |-> Str(<<"the", " ", "code", " ", "expired">>)]),
            Dict([error |-> Str(<<"access_denied">>)])}

InitToken ==
    /\ pc = "get_token"
    /\ lenient = FALSE
    /\ client_id \in {NoneV, Str(<<>>), Str(<<"app-id">>)}
    /\ tenant_id \in {NoneV, Str(<<"contoso">>)}
    /\ accounts = Pending /\ silent = Pending /\ flow = Pending
    /\ result = NoneV
    /\ stderr = <<>> /\ exit_code = NoneV /\ token = Pending
    /\ SanIdle /\ DueIdle /\ RowIdle /\ ExpIdle

tokOther == <<lenient, sanVars, dueVars, rowVars, include_completed, no_checklists, lists,
              fetched, all_rows, out_file, error>>

\* The client id is read; without one the process exits with status 1.
ReadEnvironment ==
    /\ pc = "get_token"
    /\ IF ~Truthy(client_id)
       THEN /\ stderr' = Append(stderr, <<"ERROR:", " ", "MS_TODO_CLIENT_ID", " ", "environment",
                                           " ", "variable", " ", "not", " ", "set">>)
            /\ exit_code' = Int(1)
            /\ pc' = "exited"
       ELSE /\ pc' = "get_accounts"
            /\ UNCHANGED <<stderr, exit_code>>
    /\ UNCHANGED <<client_id, tenant_id, accounts, silent, flow, result, token, stdout, tokOther>>

\* accounts = app.get_accounts(); result = None
GetAccounts ==
    /\ pc = "get_accounts"
    /\ \E n \in 0..MaxAccounts :
         /\ accounts' = List([k \in 1..n |-> Dict([username |-> Str(<<"user", IntToStr(k)[1]>>)])])
         /\ pc' = IF n > 0 THEN "silent" ELSE "device_flow"
    /\ result' = NoneV
    /\ UNCHANGED <<client_id, tenant_id, silent, flow, stderr, exit_code, token, stdout, tokOther>>

\* result = app.acquire_token_silent(SCOPES, account=accounts[0]); if not result: ...
AcquireSilent ==
    /\ pc = "silent"
    /\ \E r \in SilentResults :
         /\ silent' = r
         /\ result' = r
         /\ pc' = IF ~Truthy(r) THEN "device_flow" ELSE "check_token"
    /\ UNCHANGED <<client_id, tenant_id, accounts, flow, stderr, exit_code, token, stdout, tokOther>>

\* flow = app.initiate_device_flow(scopes=SCOPES): without a user code the
\* process exits with status 1, else the URL and the code are shown.
InitiateDeviceFlow ==
    /\ pc = "device_flow"
    /\ \E f \in DeviceFlows :
         /\ flow' = f
         /\ IF ~HasKey(f, "user_code")
            THEN /\ stderr' = Append(stderr, <<"Failed", " ", "to", " ", "create", " ",
                                                "device", " ", "flow">>)
                 /\ exit_code' = Int(1)
                 /\ pc' = "exited"
                 /\ UNCHANGED stdout
            ELSE /\ stdout' = stdout \o
                       << <<"To", " ", "authenticate,", " ", "navigate", " ", "to:", " ">>
                             \o f.v["verification_uri"].v,
                          <<"Enter", " ", "the", " ", "code:", " ">> \o f.v["user_code"].v >>
                 /\ pc' = "wait_device"
                 /\ UNCHANGED <<stderr, exit_code>>
    /\ UNCHANGED <<client_id, tenant_id, accounts, silent, result, token, tokOther>>

\* result = app.acquire_token_by_device_flow(flow), which blocks
AcquireByDeviceFlow ==
    /\ pc = "wait_device"
    /\ \E r \in DeviceResults : result' = r
    /\ pc' = "check_token"
    /\ UNCHANGED <<client_id, tenant_id, accounts, silent, flow, stderr, exit_code, token,
                   stdout, tokOther>>

\* The result is tested for a token: the token is returned, or the process
\* exits with status 1.
CheckToken ==
    /\ pc = "check_token"
    /\ IF ~HasKey(result, "access_token")
       THEN /\ stderr' = Append(stderr, <<"Failed", " ", "to", " ", "obtain", " ", "access", " ",
                                           "token:", " ">>
                                          \o (LET d == Get(result, "error_description", NoneV)
                                              IN  IF d = NoneV THEN <<"None">> ELSE d.v))
            /\ exit_code' = Int(1)
            /\ pc' = "exited"
            /\ UNCHANGED token
       ELSE /\ token' = result.v["access_token"]
            /\ pc' = "token_returned"
            /\ UNCHANGED <<stderr, exit_code>>
    /\ UNCHANGED <<client_id, tenant_id, accounts, silent, flow, result, stdout, tokOther>>

NextToken ==
    \/ ReadEnvironment
    \/ GetAccounts
    \/ AcquireSilent
    \/ InitiateDeviceFlow
    \/ AcquireByDeviceFlow
    \/ CheckToken

SpecToken == InitToken /\ [][NextToken]_vars

----------------------------------------------------------------------------
(* C6: parse_due never raises; an absent, empty or unparsable due-date-time *)
(* gives ("", ""); a parsable one gives its calendar date and its HH:MM     *)
(* clock, the time empty when the clock is exactly midnight; so a non-empty *)
(* time comes with a non-empty date.  The expected values are read off the  *)
(* parts the timestamp was built from, not off the parser.                  *)

\* The timestamp d sep c x is one fromisoformat accepts.
Parsable(d, c, x, len) ==
    /\ d.good /\ c.good /\ x.good
    /\ (x.frac => (len \/ (c.sec /\ x.digits \in {3, 6})))

DueGiven == due # NoneV /\ HasKey(due, "dateTime") /\ due.v["dateTime"].t = "str"
             /\ due.v["dateTime"].v # <<>>

\* C6: parse_due never raises and returns the (date, time) the parts of the timestamp call for.
C6_ParseDue ==
    pc = "parse_due:returned" =>
      /\ due_ret.t = "return"
      /\ (~DueGiven => due_ret.v = <<<<>>, <<>>>>)
      /\ (due_ret.v[2] # <<>> => due_ret.v[1] # <<>>)
      /\ \A d \in IsoDates :
           /\ (DueGiven /\ due.v["dateTime"].v = d.s) =>
                 due_ret.v = (IF d.good THEN <<d.s, <<>>>> ELSE <<<<>>, <<>>>>)
           /\ \A sep \in IsoSeps, c \in IsoClocks, x \in IsoSuffixes :
                (DueGiven /\ due.v["dateTime"].v = d.s \o sep \o c.s \o x.s) =>
                   due_ret.v = (IF Parsable(d, c, x, lenient)
                                THEN <<d.s, IF c.zero /\ ~x.nonzero THEN <<>> ELSE c.hm>>
                                ELSE <<<<>>, <<>>>>)

\* A midnight timestamp was parsed: the date is set and the time is empty.
C6_Witness ==
    /\ pc = "parse_due:returned"
    /\ due = Dict([dateTime |-> Str(<<"2", "0", "2", "4", "-", "0", "3", "-", "1", "5", "T",
                                      "0", "0", ":", "0", "0", ":", "0", "0", "Z">>),
                   timeZone |-> Str(<<"UTC">>)])
    /\ due_ret = Return(<<<<"2", "0", "2", "4", "-", "0", "3", "-", "1", "5">>, <<>>>>)

----------------------------------------------------------------------------
(* C5: sanitize leaves no carriage return and no newline, no leading or     *)
(* trailing whitespace, and turns each embedded line break, the pair CR LF  *)
(* included, into exactly one space.                                        *)

\* s with each line break (CR LF, a lone CR, a lone LF) replaced by one space.
RECURSIVE CollapseBreaks(_)
CollapseBreaks(s) ==
    IF s = <<>> THEN <<>>
    ELSE IF Len(s) >= 2 /\ s[1] = "\r" /\ s[2] = "\n"
         THEN <<" ">> \o CollapseBreaks(SubSeq(s, 3, Len(s)))
    ELSE IF s[1] \in {"\r", "\n"} THEN <<" ">> \o CollapseBreaks(Tail(s))
    ELSE <<s[1]>> \o CollapseBreaks(Tail(s))

\* C5: no line break is left, no outer whitespace, and each line break became one space.
C5_Sanitize ==
    (pc = "sanitize:returned" /\ text # NoneV) =>
      /\ \A i \in 1..Len(sanitized.v) : sanitized.v[i] \notin {"\r", "\n"}
      /\ sanitized.v # <<>> =>
            (sanitized.v[1] \notin Whitespace /\ sanitized.v[Len(sanitized.v)] \notin Whitespace)
      /\ sanitized.v = Strip(CollapseBreaks(text.v))

----------------------------------------------------------------------------
(* Reading a task record and a row, for the statements below *)

RowContent(r) == r[2]
RowPriority(r) == r[3]
RowDueDate(r) == r[4]
RowDueTime(r) == r[5]
RowDescription(r) == r[6]

\* The checklist items of a task record, none when the key is absent or null.
ItemsOf(tk) ==
    IF HasKey(tk, "checklistItems") /\ tk.v["checklistItems"].t = "list"
    THEN tk.v["checklistItems"].v
    ELSE <<>>

ItemChecked(item) == HasKey(item, "isChecked") /\ item.v["isChecked"] = Bool(TRUE)

\* The positions of the unchecked items of a task, and how many lie before one.
UncheckedAt(tk) == {k \in 1..Len(ItemsOf(tk)) : ~ItemChecked(ItemsOf(tk)[k])}
UncheckedBefore(tk, k) == Cardinality({j \in UncheckedAt(tk) : j < k})

----------------------------------------------------------------------------
(* C3: no row is ever emitted for a checked checklist item, whatever the    *)
(* flags; with include_checklists false task_rows emits exactly one row,    *)
(* the task's own.  A row does not name its item, so the statement is on    *)
(* the number of rows: one for the task and one per unchecked item.         *)

----------------------------------------------------------------------------
(* C4: the Priority of every row is the image of the task's importance:     *)
(* high 1, normal 3, low 4, and 3 for any other value, null or no key.      *)

ExpectedPriority(tk) ==
    IF ~HasKey(tk, "importance") THEN <<"3">>
    ELSE IF tk.v["importance"] = Str(<<"high">>) THEN <<"1">>
    ELSE IF tk.v["importance"] = Str(<<"normal">>) THEN <<"3">>
    ELSE IF tk.v["importance"] = Str(<<"low">>) THEN <<"4">>
    ELSE <<"3">>

\* C4: every row's Priority is the table image of the task's importance, one of 1, 3, 4.
C4_Priority ==
    pc = "task_rows:returned" =>
      \A k \in 1..Len(rows.v) :
         /\ RowPriority(rows.v[k]) = ExpectedPriority(task)
         /\ RowPriority(rows.v[k]) \in {<<"1">>, <<"3">>, <<"4">>}

\* A task of low importance gave rows, a checklist row among them, of priority 4.
C4_Witness ==
    /\ pc = "task_rows:returned"
    /\ HasKey(task, "importance") /\ task.v["importance"] = Str(<<"low">>)
    /\ Len(rows.v) >= 2
    /\ RowPriority(rows.v[2]) = <<"4">>

----------------------------------------------------------------------------
(* C8: with include_checklists true, each unchecked checklist item gives    *)
(* one more row whose Content is the parent's sanitized title, " > " and    *)
(* the item's sanitized name, whose Description is "Subtask from '<title>'  *)
(* | List: <listName>" with the title and the list name filled in, and      *)
(* whose Priority, Due Date and Due Time are those of the task's own row.   *)

\* C8: the row of each unchecked item carries the title, the item's name and the list name.
C8_ChecklistRow ==
    (pc = "task_rows:returned" /\ include_checklists) =>
      /\ Len(rows.v) = 1 + Cardinality(UncheckedAt(task))
      /\ \A k \in UncheckedAt(task) :
           LET r        == rows.v[1 + UncheckedBefore(task, k) + 1]
               title    == sanitize(Get(task, "title", Str(<<>>)))
               cl_title == sanitize(Get(ItemsOf(task)[k], "displayName", Str(<<>>)))
           IN  /\ RowContent(r) = title \o <<" ", ">", " ">> \o cl_title
               /\ RowDescription(r) =
                     <<"Subtask", " ", "from", " ", "'">> \o title
                       \o <<"'", " ", "|", " ", "List:", " ">> \o list_name
               /\ RowPriority(r) = RowPriority(rows.v[1])
               /\ RowDueDate(r) = RowDueDate(rows.v[1])
               /\ RowDueTime(r) = RowDueTime(rows.v[1])

----------------------------------------------------------------------------
(* C10: the Description of a task's own row is the sanitized body (if not   *)
(* empty), the attachment marker (if hasAttachments is set) and "List: "    *)
(* with the name of the list, in this order, joined by the separator; the   *)
(* list part is always there and always last.                               *)

ExpectedDescription(tk, name) ==
    LET body == sanitize(Get(Get(tk, "body", Dict(<<>>)), "content", Str(<<>>)))
    IN  Join(NoteSeparator,
             (IF body # <<>> THEN <<body>> ELSE <<>>)
               \o (IF HasKey(tk, "hasAttachments") /\ tk.v["hasAttachments"] = Bool(TRUE)
                   THEN <<AttachmentNote>> ELSE <<>>)
               \o << <<"List:", " ">> \o name >>)

\* C10: the own row's Description is body, attachment marker and list name, joined in order.
C10_Description ==
    pc = "task_rows:returned" =>
      RowDescription(rows.v[1]) = ExpectedDescription(task, list_name)

----------------------------------------------------------------------------
(* Reading the service's answers, for the statements below *)

Failed(r) == r.status_code >= 400

\* Concatenation of a sequence of sequences.
RECURSIVE Concat(_)
Concat(ss) == IF ss = <<>> THEN <<>> ELSE Head(ss) \o Concat(Tail(ss))

\* The items of a page: none when the request failed or the body has no "value".
PageItems(r) == IF ~Failed(r) /\ HasKey(r.json, "value") THEN r.json.v["value"].v ELSE <<>>

\* The name export_csv uses for the k-th list of the lists page.
ListNameAt(k) ==
    LET lst == PageItems(fetched[1])[k]
    IN  IF HasKey(lst, "displayName") THEN lst.v["displayName"].v ELSE <<"Unnamed", " ", "List">>

\* A task the export leaves out: completed, and completed tasks not asked for.
Skipped(tk) ==
    ~include_completed /\ HasKey(tk, "status") /\ tk.v["status"] = Str(<<"completed">>)

\* The n-th unchecked item of a task.
NthUnchecked(tk, n) ==
    ItemsOf(tk)[CHOOSE k \in UncheckedAt(tk) : UncheckedBefore(tk, k) = n - 1]

\* The rows a task is to give: none when skipped, else its own row and, when
\* checklists are exported, a row per unchecked item in item order.
ExpectedBlock(tk, name) ==
    IF Skipped(tk) THEN <<>>
    ELSE <<TaskRow(tk, name, <<>>, lenient)>>
           \o (IF no_checklists THEN <<>>
               ELSE [n \in 1..Cardinality(UncheckedAt(tk)) |->
                        ChecklistRow(tk, NthUnchecked(tk, n), name, lenient)])

\* The rows due after the first k answers: list by list, task by task.
RECURSIVE ExpectedRows(_)
ExpectedRows(k) ==
    IF k <= 1 THEN <<>>
    ELSE ExpectedRows(k - 1)
           \o Concat([j \in 1..Len(PageItems(fetched[k])) |->
                         ExpectedBlock(PageItems(fetched[k])[j], ListNameAt(k - 1))])

\* The tasks returned that are not skipped, and their unchecked items.
IncludedTasks ==
    {<<k, j>> \in (2..Len(fetched)) \X (1..MaxTasks) :
        j <= Len(PageItems(fetched[k])) /\ ~Skipped(PageItems(fetched[k])[j])}

RECURSIVE SumUnchecked(_)
SumUnchecked(S) ==
    IF S = {} THEN 0
    ELSE LET x == CHOOSE y \in S : TRUE
         IN  Cardinality(UncheckedAt(PageItems(fetched[x[1]])[x[2]])) + SumUnchecked(S \ {x})

Untouched == out_file \in {NoneV, Str(OldFile)}

----------------------------------------------------------------------------
(* C1: the output file is opened and written only after fetch_lists and     *)
(* fetch_tasks for every list have returned; if any request is answered     *)
(* with a status of 400 or more, graph_get raises, the run ends there, and  *)
(* the file is never created, cut or written, whatever rows were gathered.  *)

\* C1: a failed request ends the run with the file untouched; the file is touched only after every fetch.
C1_NothingWrittenOnFailure ==
    /\ (\E k \in 1..Len(fetched) : Failed(fetched[k])) =>
          /\ pc = "raised"
          /\ error.t = "raise" /\ error.exc = "RuntimeError"
          /\ Failed(fetched[Len(fetched)])
          /\ Untouched
          /\ stdout = <<>>
    /\ ~Untouched =>
          /\ lists # Pending
          /\ Len(fetched) = 1 + Len(lists.v)
          /\ \A k \in 1..Len(fetched) : ~Failed(fetched[k])

\* The second list's fetch failed after the first list gave rows; the old
\* file is as it was.
C1_Witness ==
    /\ pc = "raised"
    /\ Len(fetched) = 3
    /\ fetched[3].status_code = 400
    /\ all_rows # <<>>
    /\ out_file = Str(OldFile)

----------------------------------------------------------------------------
(* C2: a task whose status is "completed" gives no row, and its checklist   *)
(* items give none, when include_completed is false; every other task, and  *)
(* every task when include_completed is true, gives its own row, followed   *)
(* by its checklist rows as the checklist filtering leaves them.            *)

\* C2: the rows gathered are those of the tasks not skipped, completed tasks skipped unless asked for.
C2_CompletedFilter ==
    all_rows = ExpectedRows(IF pc = "raised" /\ error.exc = "RuntimeError"
                            THEN Len(fetched) - 1 ELSE Len(fetched))

\* A page held a completed task before an active one, completed tasks were
\* not asked for, and the run ended with rows.
C2_Witness ==
    /\ pc = "done"
    /\ ~include_completed
    /\ \E k \in 2..Len(fetched) :
          /\ Len(PageItems(fetched[k])) >= 2
          /\ Skipped(PageItems(fetched[k])[1])
          /\ ~Skipped(PageItems(fetched[k])[2])
    /\ all_rows # <<>>

----------------------------------------------------------------------------
(* C9: on a successful run the file holds the header row and then exactly   *)
(* the accumulated rows, in list order, task order and item order, each     *)
(* task's own row before its checklist rows; the count reported equals the  *)
(* number of data rows written: the included tasks plus, when checklists    *)
(* are exported, their unchecked items.                                     *)

\* C9: after a successful run the file is the header and the expected rows, and the count printed is their number.
C9_FileAndCount ==
    pc = "done" =>
      LET expected == ExpectedRows(Len(fetched))
      IN  /\ out_file = Str(CsvRecord(CsvHeader) \o CsvRecords(expected))
          /\ Len(expected) = Cardinality(IncludedTasks)
                               + (IF no_checklists THEN 0 ELSE SumUnchecked(IncludedTasks))
          /\ stdout = << <<"Exported", " ">> \o IntToStr(Len(expected))
                           \o <<" ", "tasks", " ", "to", " ">> \o OutputPath >>

\* The part of C9 about the file alone.
FileHoldsRows ==
    pc = "done" =>
      LET expected == ExpectedRows(Len(fetched))
      IN  /\ out_file = Str(CsvRecord(CsvHeader) \o CsvRecords(expected))
          /\ Len(expected) = Cardinality(IncludedTasks)
                               + (IF no_checklists THEN 0 ELSE SumUnchecked(IncludedTasks))

----------------------------------------------------------------------------
(* C7: whenever silent reuse yields no token (no cached account, or a       *)
(* result of acquire_token_silent without an access token) the device flow  *)
(* is initiated before the process may exit; the process exits with status  *)
(* 1 only when the client id is missing, the device flow cannot be created  *)
(* or the device flow's final result carries no access token; otherwise     *)
(* get_token returns the access token.                                      *)

HasToken(r) == r.t = "dict" /\ HasKey(r, "access_token")

SilentMiss ==
    /\ accounts # Pending
    /\ (accounts.v = <<>> \/ (silent # Pending /\ ~HasToken(silent)))

DeviceFlowInitiated == flow # Pending

====
